---- MODULE Spec2Model ----
(***************************************************************************)
(* A model of spaces-tracker's main.js: the revisions-manifest refresh,    *)
(* the chunked concurrent download of sourcemaps, the extraction of their  *)
(* sources into the local mirror, and the change report.                   *)
(*                                                                         *)
(* JavaScript runs one continuation at a time.  Each action below is one   *)
(* continuation: it resumes a function at an await whose I/O has finished  *)
(* and runs it, with that I/O's effect, up to its next await or return.    *)
(***************************************************************************)
EXTENDS Integers, Sequences, FiniteSets, TLC

\* ------------------------------------------------------------------ bounds
\* Longest link list read from links.json.
MaxLinks == 2
\* Largest batchSize handed to processInBatches.  main passes CONCURRENCY = 10
\* (line 9); the link lists here are shorter than that, so the batch size is
\* drawn from 1..MaxBatchSize and lists of several chunks occur.
MaxBatchSize == 2
\* Longest link list of the runs that follow the scheduling of the chunks.
MaxSchedLinks == 3
\* Most I/O faults (transport failure, failed read/stat/mkdir/write) per behaviour.
MaxFaults == 1
\* Number of consecutive runs of the program over the same mirror.
MaxRuns == 2

\* ------------------------------------------------------------------ values
\* JavaScript's null in results.error.
Null == "null"

\* A sources[i] string, split as the regular expression of line 105 reads it:
\* the letters before a leading ":///" (scheme, "" when there is none) and the
\* path segments after it.
Src(scheme, segs) == [scheme |-> scheme, segs |-> segs]
SrcA == Src("webpack", <<"src", "a.js">>)
SrcADot == Src("", <<".", "src", "a.js">>)
SrcB == Src("webpack", <<"lib", "b.js">>)

LowerSchemes == {"webpack", "file"}

\* Contents of sourcesContent entries; "" stands for every falsy entry
\* (null, undefined, the empty string).
NoContent == ""

\* sourcePath.replace(/^[a-z]+:\/\/\//, ''): a lowercase scheme and its ":///"
\* are dropped; any other prefix stays as the first path segment.
CleanPath(sourcePath) ==
    IF sourcePath.scheme \in LowerSchemes THEN sourcePath.segs
    ELSE IF sourcePath.scheme = "" THEN sourcePath.segs
    ELSE <<sourcePath.scheme \o ":">> \o sourcePath.segs

\* path.join('.', cleanPath): the normalised path, without "." segments.
RECURSIVE Normalize(_)
Normalize(segs) ==
    IF segs = <<>> THEN <<>>
    ELSE IF Head(segs) = "." THEN Normalize(Tail(segs))
    ELSE <<Head(segs)>> \o Normalize(Tail(segs))

LocalPath(sourcePath) == Normalize(CleanPath(sourcePath))

\* path.dirname(localPath)
Dirname(localPath) == SubSeq(localPath, 1, Len(localPath) - 1)

\* Every directory mkdir(dir, {recursive: true}) makes sure exists.
Ancestors(dir) == {SubSeq(dir, 1, k) : k \in 0..Len(dir)}

\* crypto md5 hex digest.  On the contents of this model md5 has no collision,
\* so the digest is a tagged copy of the content it was computed from.
getFileHash(content) == <<"md5", content>>

\* ------------------------------------------------------------------ remote
\* What the host answers for a sourcemap URL.
HttpError(status) ==
    [ok |-> FALSE, status |-> status, json |-> FALSE, hasSources |-> FALSE,
     hasContent |-> FALSE, sources |-> <<>>, sourcesContent |-> <<>>]
BadJson ==
    [ok |-> TRUE, status |-> 200, json |-> FALSE, hasSources |-> FALSE,
     hasContent |-> FALSE, sources |-> <<>>, sourcesContent |-> <<>>]
Doc(hasSources, sources, hasContent, sourcesContent) ==
    [ok |-> TRUE, status |-> 200, json |-> TRUE, hasSources |-> hasSources,
     hasContent |-> hasContent, sources |-> sources,
     sourcesContent |-> sourcesContent]

Responses ==
    { HttpError(404),
      BadJson,
      Doc(TRUE, <<SrcA>>, FALSE, <<>>),
      Doc(TRUE, <<SrcA>>, TRUE, <<"x">>),
      Doc(TRUE, <<SrcADot, SrcB>>, TRUE, <<"y">>),
      Doc(TRUE, <<SrcA, SrcADot>>, TRUE, <<"x", "y">>),
      Doc(TRUE, <<SrcA, SrcB>>, TRUE, <<NoContent, "x">>) }

Paths == {LocalPath(SrcA), LocalPath(SrcB)}

\* The responses the refresh of revisions.json can meet (lines 54-69).
RevisionOutcomes == {"ok", "http", "transport", "badjson", "shape", "writefail"}

\* ------------------------------------------------------------------ state
VARIABLES
    nLinks,      \* sourcemapLinks.length; URL u is the u-th link
    batchSize,   \* the batchSize argument of processInBatches
    remote,      \* remote[u]: what the host answers for URL u
    fs,          \* the mirror: fs[p] = [exists, content, mtime]
    dirs,        \* the directories of the mirror that exist
    clock,       \* the filesystem's time, stamped on each write
    mpc,         \* where main() is
    revisions,   \* how updateRevisions() ended in this run
    chunk,       \* the loop variable i of processInBatches
    results,     \* the results array of processInBatches
    job,         \* job[u]: the call downloadAndExtractSourcemap(URL u)
    finished,    \* the jobs whose results main has yet to read, in the order they completed
    stats,       \* stats.changed (path -> previousModified) and stats.failed
    written,     \* the report files written in this run
    exitCode,    \* <<>> while running, <<c>> once the process has ended
    faults,      \* I/O faults met so far
    run,         \* the number of this run
    writes,      \* mirror files written in this run
    lines,       \* the lines array of main (line 184)
    output,      \* the content of commit-message.txt and telegram-message.txt
    mirror0      \* the mirror as this run found it

vars == <<nLinks, batchSize, remote, fs, dirs, clock, mpc, revisions, chunk,
          results, job, finished, stats, written, exitCode, faults, run, writes,
          lines, output, mirror0>>

\* What only main's report and a new run change.
rest == <<lines, output, mirror0>>

env == <<nLinks, batchSize, remote>>

Links == 1..nLinks

Absent == [exists |-> FALSE, content |-> NoContent, mtime |-> 0]
File(content, mtime) == [exists |-> TRUE, content |-> content, mtime |-> mtime]

\* results = {url, success: true, files: [], error: null} (lines 73-78)
NewResults(u) == [url |-> u, success |-> TRUE, files |-> <<>>, error |-> Null]

\* A call of downloadAndExtractSourcemap that has not been made yet.  i is the
\* loop index (1-based); isChanged and previousModified are the locals of lines
\* 108-109 (<<>> is null, <<t>> a Date).  obs records, for each element of
\* results.files, what the job saw of the file: whether fileExists answered true,
\* the content it read and that version's mtime, and the mtime of the version
\* its write replaced.  fault names the I/O call of the job that failed, if
\* any; fetches counts the calls of fetch(url) (line 81).
NoSeen == [entry |-> 0, existed |-> FALSE, compared |-> <<>>,
           comparedMtime |-> <<>>, replaced |-> <<>>]

IdleJob(u) ==
    [pc |-> "idle", i |-> 0, isChanged |-> FALSE, previousModified |-> <<>>,
     results |-> NewResults(u), obs |-> <<>>, seen |-> NoSeen, fault |-> "",
     fetches |-> 0]

EmptyStats == [changed |-> <<>>, failed |-> <<>>]

\* The two report files before they are written.
NoOutput == [commit |-> <<>>, telegram |-> <<>>]

\* The mirror a first run finds: empty, or holding src/a.js from an earlier run.
InitMirrors ==
    {[p \in Paths |-> IF p = LocalPath(SrcA) THEN f ELSE Absent] :
        f \in {Absent, File("x", 0)}}

\* The state after the module is loaded (lines 5-14), for a link list of at
\* most `most` links answered from `answers`.
Loaded(most, answers) ==
    /\ nLinks \in 0..most
    /\ batchSize \in 1..MaxBatchSize
    /\ remote \in [1..nLinks -> answers]
    /\ fs \in InitMirrors
    /\ dirs = UNION {Ancestors(Dirname(p)) : p \in {q \in Paths : fs[q].exists}} \cup {<<>>}
    /\ clock = 1
    /\ mpc = "updateRevisions"
    /\ revisions = "pending"
    /\ chunk = 0
    /\ results = <<>>
    /\ job = [u \in 1..nLinks |-> IdleJob(u)]
    /\ finished = <<>>
    /\ stats = EmptyStats
    /\ written = {}
    /\ exitCode = <<>>
    /\ faults = 0
    /\ run = 1
    /\ writes = 0
    /\ lines = <<>>
    /\ output = NoOutput
    /\ mirror0 = fs

Init == Loaded(MaxLinks, Responses)

\* Longer link lists, answered by an error, a document without sourcesContent,
\* a one-file document or a two-source document.
SchedResponses ==
    { HttpError(404),
      Doc(TRUE, <<SrcA>>, FALSE, <<>>),
      Doc(TRUE, <<SrcA>>, TRUE, <<"x">>),
      Doc(TRUE, <<SrcADot, SrcB>>, TRUE, <<"y">>) }

InitSched == Loaded(MaxSchedLinks, SchedResponses)

\* The same link lists, answered by an error or by a two-source document.
LiveResponses ==
    { HttpError(404),
      Doc(TRUE, <<SrcADot, SrcB>>, TRUE, <<"y">>) }

InitLive == Loaded(MaxSchedLinks, LiveResponses)

\* ------------------------------------------------- downloadAndExtractSourcemap
\* sourcemap.sourcesContent[i]; undefined (falsy) past the end of the array.
ContentAt(doc, i) ==
    IF i \in 1..Len(doc.sourcesContent) THEN doc.sourcesContent[i] ELSE NoContent

\* A loop that takes an entry without content like any other.
NextEntryUnskipped(doc, from) == from

\* The loop of lines 100-103 from index `from` on: the first index whose
\* content is truthy, or sources.length + 1 when the loop ends.
RECURSIVE NextEntry(_, _)
NextEntry(doc, from) ==
    IF from > Len(doc.sources) THEN from
    ELSE IF ContentAt(doc, from) = NoContent THEN NextEntry(doc, from + 1)
    ELSE from

\* The local path of entry i (lines 101-106).
EntryPath(doc, i) == LocalPath(doc.sources[i])

\* A job without the catch block: the error leaves the function.
Rethrown(jr, message) == [jr EXCEPT !.pc = "raised"]

\* The catch block (lines 139-144): the job returns its results with
\* success = false; the files pushed so far stay in results.files.
Thrown(jr, message) ==
    [jr EXCEPT !.pc = "done", !.results.success = FALSE, !.results.error = message]

\* A job that fetches its URL again instead of returning.
Retried(jr, message) == [jr EXCEPT !.pc = "fetch", !.fetches = @ + 1]

\* The early returns of lines 87-98.
Returned(jr, message) ==
    [jr EXCEPT !.pc = "done", !.results.success = FALSE, !.results.error = message]

\* The loop goes on at index `from`: the next present entry is looked up
\* with fileExists (line 111), or the loop ends and the job returns (line 144).
Loop(jr, doc, from) ==
    LET k == NextEntry(doc, from) IN
    IF k > Len(doc.sources)
    THEN [jr EXCEPT !.pc = "done", !.i = k, !.seen = NoSeen]
    ELSE [jr EXCEPT !.pc = "access", !.i = k, !.isChanged = FALSE,
                    !.previousModified = <<>>,
                    !.seen = [NoSeen EXCEPT !.entry = k]]

\* results.files.push(...) of lines 127-136, with the job's record of what it saw.
Push(jr, file) ==
    [jr EXCEPT !.results.files = Append(@, file), !.obs = Append(@, jr.seen)]

\* A changed file pushed without the time read by stat.
ChangedFileNoPrevious(path, previousModified) ==
    [path |-> path, isChanged |-> TRUE, previousModified |-> <<>>]

ChangedFile(path, previousModified) ==
    [path |-> path, isChanged |-> TRUE, previousModified |-> previousModified]

\* {path, isChanged: false}: the object has no previousModified key.
UnchangedFile(path) ==
    [path |-> path, isChanged |-> FALSE, previousModified |-> <<>>]

\* The completion order of the jobs, kept by every job step.
Settle(u, jr) == IF jr.pc = "done" THEN Append(finished, u) ELSE finished

JobStep(u, jr) ==
    /\ job' = [job EXCEPT ![u] = jr]
    /\ finished' = Settle(u, jr)
    /\ UNCHANGED <<env, rest, mpc, revisions, chunk, results, stats, written, exitCode, run>>

Fault == /\ faults < MaxFaults
         /\ faults' = faults + 1

\* The job's I/O call `call` failed.
Failing(jr, call) == [jr EXCEPT !.fault = call]

\* await fetch(url) (lines 81-91): the transport fails, or the response is
\* not ok, or the job goes on to read the body.
Fetch(u) ==
    /\ job[u].pc = "fetch"
    /\ UNCHANGED <<fs, dirs, clock, writes>>
    /\ \/ /\ Fault
          /\ JobStep(u, Thrown(Failing(job[u], "fetch"), "fetch failed"))
       \/ /\ UNCHANGED faults
          /\ IF ~remote[u].ok
             THEN JobStep(u, Returned(job[u], "HTTP " \o ToString(remote[u].status)))
             ELSE JobStep(u, [job[u] EXCEPT !.pc = "json"])

\* A test that looks at sources alone.
InvalidWithoutSources(doc) == ~doc.hasSources

\* !sourcemap.sources || !sourcemap.sourcesContent (line 94)
InvalidFormat(doc) == ~doc.hasSources \/ ~doc.hasContent

\* await req.json() (lines 93-103): the body is no JSON, or lacks sources
\* or sourcesContent, or the loop starts.
Json(u) ==
    /\ job[u].pc = "json"
    /\ UNCHANGED <<fs, dirs, clock, writes, faults>>
    /\ IF ~remote[u].json
       THEN JobStep(u, Thrown(job[u], "Unexpected token"))
       ELSE IF InvalidFormat(remote[u])
       THEN JobStep(u, Returned(job[u], "Invalid sourcemap format"))
       ELSE JobStep(u, Loop(job[u], remote[u], 1))

\* await fileExists(localPath) (lines 20-27, 111, 120-122): never throws; it
\* answers whether the file is there.
Access(u) ==
    LET jr == job[u]
        p == EntryPath(remote[u], jr.i) IN
    /\ jr.pc = "access"
    /\ UNCHANGED <<fs, dirs, clock, writes, faults>>
    /\ IF fs[p].exists
       THEN JobStep(u, [jr EXCEPT !.pc = "read", !.seen.existed = TRUE])
       ELSE JobStep(u, [jr EXCEPT !.pc = "mkdir", !.isChanged = TRUE])

\* A comparison that takes every existing file for changed.
IsChangedAlways(sourceContent, existingContent) == TRUE

\* isChanged = newHash !== existingHash (lines 107, 113-114)
IsChanged(sourceContent, existingContent) ==
    getFileHash(sourceContent) # getFileHash(existingContent)

\* await fs.readFile(localPath) (lines 112-119, 132-137): the read fails, or
\* the content differs and the job goes on to stat, or it is the same and the
\* job pushes an unchanged file and loops.
Read(u) ==
    LET jr == job[u]
        doc == remote[u]
        p == EntryPath(doc, jr.i)
        saw == [jr EXCEPT !.seen.compared = <<fs[p].content>>,
                          !.seen.comparedMtime = <<fs[p].mtime>>] IN
    /\ jr.pc = "read"
    /\ UNCHANGED <<fs, dirs, clock, writes>>
    /\ \/ /\ Fault
          /\ JobStep(u, Thrown(Failing(jr, "read"), "EIO: read"))
       \/ /\ UNCHANGED faults
          /\ IF IsChanged(ContentAt(doc, jr.i), fs[p].content)
             THEN JobStep(u, [saw EXCEPT !.pc = "stat", !.isChanged = TRUE])
             ELSE JobStep(u, Loop(Push(saw, UnchangedFile(p)), doc, jr.i + 1))

\* The time of the job's own write, as a stat made after it would read.
StatAfterWrite(p) == clock

\* fileStat.mtime (lines 117-118): the mtime of the file as it is now.
StatMtime(p) == fs[p].mtime

\* await fs.stat(localPath) (lines 117-118)
Stat(u) ==
    LET jr == job[u]
        p == EntryPath(remote[u], jr.i) IN
    /\ jr.pc = "stat"
    /\ UNCHANGED <<fs, dirs, clock, writes>>
    /\ \/ /\ Fault
          /\ JobStep(u, Thrown(Failing(jr, "stat"), "EIO: stat"))
       \/ /\ UNCHANGED faults
          /\ JobStep(u, [jr EXCEPT !.pc = "mkdir",
                                   !.previousModified = <<StatMtime(p)>>])

\* await fs.mkdir(path.dirname(localPath), {recursive: true}) (line 125)
Mkdir(u) ==
    LET jr == job[u]
        p == EntryPath(remote[u], jr.i) IN
    /\ jr.pc = "mkdir"
    /\ UNCHANGED <<fs, clock, writes>>
    /\ \/ /\ Fault
          /\ UNCHANGED dirs
          /\ JobStep(u, Thrown(Failing(jr, "mkdir"), "EACCES: mkdir"))
       \/ /\ UNCHANGED faults
          /\ dirs' = dirs \cup Ancestors(Dirname(p))
          /\ JobStep(u, [jr EXCEPT !.pc = "write"])

\* A write that leaves the file empty.
WriteFileTruncated(sourceContent, now) == File(NoContent, now)

\* The file fs.writeFile(localPath, sourceContent) leaves (line 126).
WriteFile(sourceContent, now) == File(sourceContent, now)

\* await fs.writeFile(...) and the push that follows (lines 126-131).
Write(u) ==
    LET jr == job[u]
        doc == remote[u]
        p == EntryPath(doc, jr.i)
        saw == [jr EXCEPT !.seen.replaced =
                    IF fs[p].exists THEN <<fs[p].mtime>> ELSE <<>>] IN
    /\ jr.pc = "write"
    /\ UNCHANGED dirs
    /\ \/ /\ Fault
          /\ UNCHANGED <<fs, clock, writes>>
          /\ JobStep(u, Thrown(Failing(jr, "write"), "ENOSPC: write"))
       \/ /\ UNCHANGED faults
          /\ fs' = [fs EXCEPT ![p] = WriteFile(ContentAt(doc, jr.i), clock)]
          /\ clock' = clock + 1
          /\ writes' = writes + 1
          /\ JobStep(u, Loop(Push(saw, ChangedFile(p, jr.previousModified)),
                             doc, jr.i + 1))

\* ------------------------------------------------------------ updateRevisions
\* await updateRevisions() (lines 53-70, 161).  Only a response that is not ok
\* is handled (lines 60-63); a failed fetch, a body that is no JSON, a body
\* without js or css (Object.keys(undefined)) and a failed writeFile throw, and
\* main() does not catch: the rejection reaches main().catch(console.error) of
\* line 221 and the process ends.
UpdateRevisionsEnds(outcome) ==
    IF outcome = "ok" THEN "written"
    ELSE IF outcome = "http" THEN "skipped"
    ELSE "threw"

UpdateRevisions ==
    /\ mpc = "updateRevisions"
    /\ \E outcome \in RevisionOutcomes :
         /\ revisions' = UpdateRevisionsEnds(outcome)
         /\ IF revisions' = "threw"
            THEN mpc' = "crashed" /\ exitCode' = <<0>>
            ELSE mpc' = "processInBatches" /\ UNCHANGED exitCode
    /\ UNCHANGED <<env, rest, fs, dirs, clock, chunk, results, job, finished, stats,
                   written, faults, run, writes>>

\* ----------------------------------------------------------- processInBatches
\* items.slice(i, i + batchSize) (line 151), as the set of its URLs.
Batch(i) == {u \in Links : i < u /\ u <= i + batchSize}

\* A chunk whose jobs are never called.
NotStarted(i) == job

\* batch.map(processor) (line 152): every job of the chunk is called and runs
\* to its first await, the fetch of line 81.
Started(i) ==
    [u \in Links |-> IF u \in Batch(i) THEN [job[u] EXCEPT !.pc = "fetch", !.fetches = @ + 1]
                     ELSE job[u]]

\* A barrier that opens as soon as one promise of the batch has resolved.
BatchSettledAny(i) == \E u \in Batch(i) : job[u].pc = "done"

\* Promise.all(...) has resolved: every promise of the batch has.
BatchSettled(i) == \A u \in Batch(i) : job[u].pc = "done"

\* The results of the batch in the order in which its jobs completed.
BatchResultsAsCompleted(i) ==
    LET done == SelectSeq(finished, LAMBDA u : u \in Batch(i)) IN
    [k \in 1..Len(done) |-> job[done[k]].results]

\* The array Promise.all resolves to: the jobs' values in the order of the batch.
BatchResults(i) == [k \in 1..Cardinality(Batch(i)) |-> job[i + k].results]

\* The call of processInBatches (lines 148-152, 157): the first chunk is
\* started, or an empty list is returned at once.
ProcessInBatches ==
    /\ mpc = "processInBatches"
    /\ results' = <<>>
    /\ chunk' = 0
    /\ finished' = <<>>
    /\ IF 0 < nLinks
       THEN mpc' = "awaitBatch" /\ job' = Started(0)
       ELSE mpc' = "report" /\ UNCHANGED job
    /\ UNCHANGED <<env, rest, fs, dirs, clock, revisions, stats, written, exitCode,
                   faults, run, writes>>

\* The continuation of line 152 (lines 153-157): the batch's results are
\* appended, and the next chunk is started or the results are returned.
ChunkDone ==
    /\ mpc = "awaitBatch"
    /\ BatchSettled(chunk)
    /\ results' = results \o BatchResults(chunk)
    /\ chunk' = chunk + batchSize
    /\ IF chunk' < nLinks
       THEN mpc' = "awaitBatch" /\ job' = Started(chunk')
       ELSE mpc' = "report" /\ UNCHANGED job
    /\ UNCHANGED <<env, rest, fs, dirs, clock, revisions, finished, stats, written,
                   exitCode, faults, run, writes>>

\* ------------------------------------------------------------------ main
\* A map that keeps the value a key was first given.
MapSetOnce(map, path, previousModified) ==
    IF \E k \in 1..Len(map) : map[k].path = path
    THEN map
    ELSE Append(map, [path |-> path, previousModified |-> previousModified])

\* stats.changed.set(path, {previousModified}) on a Map: a known key keeps its
\* place and takes the new value, a new key is appended.
MapSet(map, path, previousModified) ==
    IF \E k \in 1..Len(map) : map[k].path = path
    THEN [k \in 1..Len(map) |->
            IF map[k].path = path
            THEN [path |-> path, previousModified |-> previousModified]
            ELSE map[k]]
    ELSE Append(map, [path |-> path, previousModified |-> previousModified])

\* Lines 175-180: the changed files of one successful result enter the map.
RECURSIVE SetChanged(_, _)
SetChanged(map, files) ==
    IF files = <<>> THEN map
    ELSE SetChanged(IF Head(files).isChanged
                    THEN MapSet(map, Head(files).path, Head(files).previousModified)
                    ELSE map,
                    Tail(files))

\* A loop that puts each failure in front of the ones collected before it.
RECURSIVE CollectFailuresInFront(_, _)
CollectFailuresInFront(st, rs) ==
    IF rs = <<>> THEN st
    ELSE CollectFailuresInFront(
             IF ~Head(rs).success
             THEN [st EXCEPT !.failed =
                      <<[url |-> Head(rs).url, error |-> Head(rs).error]>> \o @]
             ELSE [st EXCEPT !.changed = SetChanged(@, Head(rs).files)],
             Tail(rs))

\* The loop of lines 171-182 over the results.
RECURSIVE Collect(_, _)
Collect(st, rs) ==
    IF rs = <<>> THEN st
    ELSE Collect(IF ~Head(rs).success
                 THEN [st EXCEPT !.failed =
                          Append(@, [url |-> Head(rs).url, error |-> Head(rs).error])]
                 ELSE [st EXCEPT !.changed = SetChanged(@, Head(rs).files)],
                 Tail(rs))

\* A test that looks at the changed files alone.
NothingChanged(st) == Len(st.changed) = 0

\* Line 209: nothing changed and nothing failed.
NothingToReport(st) == Len(st.changed) = 0 /\ Len(st.failed) = 0

\* ------------------------------------------------------------- the report
\* The path segments of the modelled sources in the order localeCompare gives
\* their names.
Collation == <<"a.js", "b.js", "lib", "src">>

Rank(segment) == CHOOSE k \in 1..Len(Collation) : Collation[k] = segment

\* a.localeCompare(b) < 0 for two local paths (line 189): the paths are
\* compared segment by segment, a proper prefix first.
RECURSIVE Before(_, _)
Before(a, b) ==
    IF b = <<>> THEN FALSE
    ELSE IF a = <<>> THEN TRUE
    ELSE IF Head(a) = Head(b) THEN Before(Tail(a), Tail(b))
    ELSE Rank(Head(a)) < Rank(Head(b))

\* One entry put in its place in a list sorted by path.
RECURSIVE Insert(_, _)
Insert(sorted, e) ==
    IF sorted = <<>> THEN <<e>>
    ELSE IF Before(e.path, Head(sorted).path) THEN <<e>> \o sorted
    ELSE <<Head(sorted)>> \o Insert(Tail(sorted), e)

\* The map entries left in insertion order.
Unsorted(entries) == entries

\* Array.from(stats.changed.entries()).sort(...) (line 189)
RECURSIVE sortedChanged(_)
sortedChanged(entries) ==
    IF entries = <<>> THEN <<>>
    ELSE Insert(sortedChanged(Tail(entries)), Head(entries))

\* The lines of the report.  A line is kept as its parts; nl tells that its
\* text begins with a newline.  The phrase formatTimeSince renders (lines
\* 40-51) depends on Date.now(); the line keeps the time it is rendered from.
Header(n) == [kind |-> "header", nl |-> FALSE, n |-> n]
ChangedTitle(n) == [kind |-> "changed files", nl |-> TRUE, n |-> n]
FailedTitle(n) == [kind |-> "failed downloads", nl |-> TRUE, n |-> n]
PreOpen == [kind |-> "<pre>", nl |-> TRUE]
PreClose == [kind |-> "</pre>", nl |-> FALSE]
ChangedLine(e) ==
    [kind |-> "changed", nl |-> FALSE, path |-> e.path,
     new |-> (e.previousModified = <<>>), since |-> e.previousModified]
FailedLine(f) == [kind |-> "failed", nl |-> FALSE, url |-> f.url, error |-> f.error]

\* Lines 186-195.
ChangedBlock(changed) ==
    IF Len(changed) > 0
    THEN <<ChangedTitle(Len(changed)), PreOpen>>
         \o [k \in 1..Len(changed) |-> ChangedLine(sortedChanged(changed)[k])]
         \o <<PreClose>>
    ELSE <<>>

\* Lines 197-204.
FailedBlock(failed) ==
    IF Len(failed) > 0
    THEN <<FailedTitle(Len(failed)), PreOpen>>
         \o [k \in 1..Len(failed) |-> FailedLine(failed[k])]
         \o <<PreClose>>
    ELSE <<>>

\* Lines 184-204.
ReportLines(st) ==
    <<Header(Len(st.changed))>> \o ChangedBlock(st.changed) \o FailedBlock(st.failed)

\* A message is the sequence of the pieces of its text: newlines and the texts
\* of lines without their leading newline.
Newline == [kind |-> "\n"]
Text(line) == [line EXCEPT !.nl = FALSE]
Piece(line) == IF line.nl THEN <<Newline, Text(line)>> ELSE <<line>>

\* lines.join('\n')
RECURSIVE Join(_)
Join(ls) ==
    IF ls = <<>> THEN <<>>
    ELSE IF Len(ls) = 1 THEN Piece(ls[1])
    ELSE Piece(Head(ls)) \o <<Newline>> \o Join(Tail(ls))

\* message.replaceAll('\n' + marker, '')
RECURSIVE ReplaceAll(_, _)
ReplaceAll(message, marker) ==
    IF Len(message) < 2 THEN message
    ELSE IF message[1] = Newline /\ message[2] = Text(marker)
    THEN ReplaceAll(Tail(Tail(message)), marker)
    ELSE <<Head(message)>> \o ReplaceAll(Tail(message), marker)

\* Line 214.
commitMessage(ls) == ReplaceAll(ReplaceAll(Join(ls), PreOpen), PreClose)

\* A notification that keeps the header line.
WholeMessage(ls) == Join(ls)

\* Line 215.
telegramMessage(ls) == Join(Tail(ls))

\* Lines 171-212: the results are collected, the report lines are built, and
\* main exits with code 0 or goes on to write the report files.
Report ==
    /\ mpc = "report"
    /\ stats' = Collect(stats, results)
    /\ lines' = ReportLines(stats')
    /\ UNCHANGED <<output, mirror0>>
    /\ IF NothingToReport(stats')
       THEN mpc' = "exited" /\ exitCode' = <<0>>
       ELSE mpc' = "writeCommit" /\ UNCHANGED exitCode
    /\ finished' = <<>>
    /\ UNCHANGED <<env, fs, dirs, clock, revisions, chunk, results, job,
                   written, faults, run, writes>>

\* await fs.writeFile('commit-message.txt', ...) (line 217)
WriteCommit ==
    /\ mpc = "writeCommit"
    /\ written' = written \cup {"commit-message.txt"}
    /\ mpc' = "writeTelegram"
    /\ output' = [output EXCEPT !.commit = commitMessage(lines)]
    /\ UNCHANGED <<lines, mirror0>>
    /\ UNCHANGED <<env, fs, dirs, clock, revisions, chunk, results, job, finished,
                   stats, exitCode, faults, run, writes>>

\* await fs.writeFile('telegram-message.txt', ...) (line 218); main returns.
WriteTelegram ==
    /\ mpc = "writeTelegram"
    /\ written' = written \cup {"telegram-message.txt"}
    /\ mpc' = "done"
    /\ exitCode' = <<0>>
    /\ output' = [output EXCEPT !.telegram = telegramMessage(lines)]
    /\ UNCHANGED <<lines, mirror0>>
    /\ UNCHANGED <<env, fs, dirs, clock, revisions, chunk, results, job, finished,
                   stats, faults, run, writes>>

\* The program is run again: the module is loaded afresh (lines 5-14) over
\* the mirror the run before left, with the same link list and remote content.
NextRun ==
    /\ mpc \in {"done", "exited"}
    /\ run < MaxRuns
    /\ run' = run + 1
    /\ mpc' = "updateRevisions"
    /\ revisions' = "pending"
    /\ chunk' = 0
    /\ results' = <<>>
    /\ job' = [u \in Links |-> IdleJob(u)]
    /\ finished' = <<>>
    /\ stats' = EmptyStats
    /\ written' = {}
    /\ exitCode' = <<>>
    /\ writes' = 0
    /\ lines' = <<>>
    /\ output' = NoOutput
    /\ mirror0' = fs
    /\ UNCHANGED <<env, fs, dirs, clock, faults>>

\* One run of the program, I/O faults included.
Next ==
    \/ UpdateRevisions
    \/ ProcessInBatches
    \/ ChunkDone
    \/ Report
    \/ WriteCommit
    \/ WriteTelegram
    \/ \E u \in Links : Fetch(u)
    \/ \E u \in Links : Json(u)
    \/ \E u \in Links : Access(u)
    \/ \E u \in Links : Read(u)
    \/ \E u \in Links : Stat(u)
    \/ \E u \in Links : Mkdir(u)
    \/ \E u \in Links : Write(u)

Spec == Init /\ [][Next]_vars

\* Consecutive runs over the same mirror in which no I/O fault happens.
NoFault == Next /\ faults' = faults

NextRerun ==
    \/ NoFault
    \/ NextRun

SpecRerun == Init /\ [][NextRerun]_vars

\* One run over a longer link list.
SpecSched == InitSched /\ [][Next]_vars

\* The event loop runs a continuation whenever one is ready, and an I/O call
\* that a job or main is waiting for completes, with a result or an error: the
\* program does not stop while some step of it can be taken.
Fairness == WF_vars(Next)

\* One run in which every started job eventually completes.
SpecLive == InitLive /\ [][Next]_vars /\ Fairness

\* ------------------------------------------------------------------ claims
\* The chunk of URL u: chunks are numbered from 0 in input order.
ChunkOf(u) == (u - 1) \div batchSize

\* processInBatches has returned its results to main.
ReturnedToMain == mpc \in {"report", "writeCommit", "writeTelegram", "done", "exited"}

\* C1: no job of a later chunk is started before every job of each earlier
\* chunk has completed, whatever the order in which the jobs of a chunk
\* complete; so the chunks are started in input order.
C1_ChunkBarrier ==
    \A u, v \in Links :
        (ChunkOf(u) < ChunkOf(v) /\ job[v].pc # "idle") => job[u].pc = "done"

\* A chunk of two jobs completed second job first, and the next chunk started.
C1_Witness ==
    /\ batchSize = 2
    /\ nLinks >= 3
    /\ Len(finished) >= 2 /\ finished[1] = 2 /\ finished[2] = 1
    /\ job[3].pc = "fetch"

\* C2: the returned sequence has the length of the input and its u-th element
\* is the result of the job run on the u-th item, whatever the order in which
\* the jobs of a chunk finished.
C2_ResultsInInputOrder ==
    ReturnedToMain =>
        /\ Len(results) = nLinks
        /\ \A u \in Links : results[u].url = u /\ results[u] = job[u].results

\* The results were returned after a chunk whose second job finished first.
C2_Witness ==
    /\ mpc = "report"
    /\ batchSize = 2
    /\ nLinks >= 2
    /\ finished[1] = 2
    /\ results[1].success /\ ~results[2].success

\* The elements of job u's results.files, by index.
FilesOf(u) == DOMAIN job[u].results.files

\* C3: a job that meets a failure (transport, status, missing fields, local
\* read, stat, mkdir or write) completes with success = false and an error
\* instead of raising, and once processInBatches has returned every job has
\* completed and there is exactly one outcome per URL.
MetFailure(u) ==
    \/ job[u].fault # ""
    \/ ~remote[u].ok
    \/ ~remote[u].json
    \/ ~remote[u].hasSources
    \/ ~remote[u].hasContent

C3_FailuresBecomeOutcomes ==
    /\ \A u \in Links : job[u].fault # "" => job[u].pc = "done"
    /\ \A u \in Links :
          (job[u].pc = "done" /\ MetFailure(u)) =>
              ~job[u].results.success /\ job[u].results.error # Null
    /\ ReturnedToMain =>
          /\ Len(results) = nLinks
          /\ \A u \in Links : job[u].pc = "done" /\ results[u].url = u

\* The first job of a chunk failed on an I/O fault before the second job
\* completed; the second job and the job of the next chunk wrote their files.
C3_Witness ==
    /\ mpc = "report"
    /\ nLinks = 3 /\ batchSize = 2
    /\ job[1].fault # "" /\ finished[1] = 1
    /\ results[2].success /\ Len(results[2].files) > 0
    /\ results[3].success /\ Len(results[3].files) > 0

\* C4: when the refresh of revisions.json fails, every sourcemap URL is still
\* processed and the report is still built.
C4_RefreshFailureIsHarmless ==
    (exitCode # <<>> /\ revisions \in {"skipped", "threw"}) =>
        /\ mpc \in {"done", "exited"}
        /\ \A u \in Links : job[u].pc = "done"

\* C5: in a run that follows a complete run over the same remote content,
\* no file is written and no FileOutcome is changed.
C5_SecondRunChangesNothing ==
    run > 1 =>
        /\ writes = 0
        /\ \A u \in Links : \A k \in FilesOf(u) : ~job[u].results.files[k].isChanged

\* C6: when the job has read a file whose content equals the entry's content,
\* it pushes an unchanged FileOutcome for the path and goes on to the next
\* entry; the step leaves the mirror's files and directories as they are.
ReadsSameContent(u) ==
    /\ job[u].pc = "read"
    /\ fs[EntryPath(remote[u], job[u].i)].content = ContentAt(remote[u], job[u].i)
    /\ job'[u] # job[u]
    /\ job'[u].fault = ""

C6_UnchangedLeavesMirror ==
    [][\A u \in Links :
         ReadsSameContent(u) =>
            /\ job'[u].results.files =
                  Append(job[u].results.files,
                         UnchangedFile(EntryPath(remote[u], job[u].i)))
            /\ job'[u].pc \in {"access", "done"}
            /\ fs' = fs /\ dirs' = dirs /\ writes' = writes]_vars

\* An unchanged FileOutcome for src/a.js, which still is the file of the
\* initial mirror.
C6_Witness ==
    \E u \in Links : \E k \in FilesOf(u) :
        /\ ~job[u].results.files[k].isChanged
        /\ job[u].obs[k].replaced = <<>>
        /\ fs[job[u].results.files[k].path] = File("x", 0)

\* C7: a FileOutcome carries previousModified exactly when fileExists
\* answered true and the content read differed from the new content.
C7_PreviousModifiedIffChanged ==
    \A u \in Links : \A k \in FilesOf(u) :
        LET f == job[u].results.files[k]
            o == job[u].obs[k] IN
        (f.previousModified # <<>>) <=>
            (o.existed /\ o.compared # <<ContentAt(remote[u], o.entry)>>)

\* One job produced a file that was new, one that had changed and one that
\* was unchanged.
C7_Witness ==
    /\ \E u \in Links : \E k \in FilesOf(u) :
          job[u].results.files[k].previousModified # <<>>
    /\ \E u \in Links : \E k \in FilesOf(u) :
          job[u].results.files[k].isChanged /\ ~job[u].obs[k].existed
    /\ \E u \in Links : \E k \in FilesOf(u) :
          ~job[u].results.files[k].isChanged

\* The local paths the document of URL u resolves to.
Targets(u) ==
    IF remote[u].ok /\ remote[u].json /\ remote[u].hasSources /\ remote[u].hasContent
    THEN {EntryPath(remote[u], i) :
            i \in {k \in DOMAIN remote[u].sources : ContentAt(remote[u], k) # NoContent}}
    ELSE {}

\* previousModified is the mtime of the version the job compared against and
\* of the version its write replaced.
PreviousIsReplaced(u, k) ==
    LET f == job[u].results.files[k]
        o == job[u].obs[k] IN
    f.previousModified # <<>> =>
        f.previousModified = o.comparedMtime /\ f.previousModified = o.replaced

\* C8 as stated: under every interleaving, jobs of a chunk that resolve to the
\* same local path included.
C8_PreviousIsReplacedAlways ==
    \A u \in Links : \A k \in FilesOf(u) : PreviousIsReplaced(u, k)

\* No other job of u's chunk resolves to the path.
AloneOnPath(u, path) ==
    \A v \in Links \ {u} : ChunkOf(v) = ChunkOf(u) => path \notin Targets(v)

\* C8, amended: previousModified is the mtime of the version the job's write
\* replaced whenever no other job of the same chunk resolves to the path.
C8_PreviousIsReplacedWhenAlone ==
    \A u \in Links : \A k \in FilesOf(u) :
        PreviousIsReplaced(u, k) \/ ~AloneOnPath(u, job[u].results.files[k].path)

\* Two jobs of one chunk on different paths, both successful; one of them
\* replaced the file of the initial mirror after the other had written.
C8_Witness ==
    /\ nLinks = 2 /\ batchSize = 2
    /\ Targets(1) # {} /\ Targets(2) # {} /\ Targets(1) \cap Targets(2) = {}
    /\ \A u \in Links : job[u].pc = "done" /\ job[u].results.success
    /\ \E u \in Links : \E k \in FilesOf(u) :
          /\ job[u].results.files[k].previousModified = <<0>>
          /\ fs[job[u].results.files[k].path].mtime > 1

\* C9: a document that lacks sources or sourcesContent, or whose two
\* sequences differ in length, makes the job return success = false
\* without writing a file.
Malformed(doc) ==
    \/ ~doc.hasSources
    \/ ~doc.hasContent
    \/ Len(doc.sources) # Len(doc.sourcesContent)

C9_MalformedIsRejected ==
    \A u \in Links :
        (job[u].pc = "done" /\ remote[u].ok /\ remote[u].json /\ Malformed(remote[u])) =>
            /\ ~job[u].results.success
            /\ job[u].results.files = <<>>

\* The paths some successful outcome reports as changed.
ChangedPaths ==
    UNION {{job[u].results.files[k].path :
               k \in {n \in FilesOf(u) : job[u].results.files[n].isChanged}} :
           u \in {v \in Links : job[v].pc = "done" /\ job[v].results.success}}

\* The URLs whose outcome is a failure.
FailedUrls == {u \in Links : job[u].pc = "done" /\ ~job[u].results.success}

ReportFiles == {"commit-message.txt", "telegram-message.txt"}

\* C10: when the process has ended, both report files are written if some
\* path changed or some URL failed; otherwise neither is written and the
\* exit code is 0.
C10_ReportsIffChangeOrFailure ==
    exitCode # <<>> =>
        /\ written \in {{}, ReportFiles}
        /\ written = ReportFiles <=> (ChangedPaths # {} \/ FailedUrls # {})
        /\ (ChangedPaths = {} /\ FailedUrls = {}) => exitCode = <<0>>

\* A run that ended with no changed path and a failed URL wrote both files.
C10_Witness ==
    /\ exitCode # <<>>
    /\ written = ReportFiles
    /\ ChangedPaths = {}
    /\ FailedUrls # {}

\* The lines of one kind in the report, in their order.
LinesOfKind(kind) == SelectSeq(lines, LAMBDA l : l.kind = kind)

\* C11: once the report lines are built, the header's count is the number of
\* distinct paths some successful outcome reports as changed, and when that
\* number is not zero the changed-files block (title, opening marker, one
\* line per path, closing marker) lists exactly those paths, each once, in
\* ascending order of path.
C11_ChangedBlockListsChangedPaths ==
    lines # <<>> =>
        LET N == Cardinality(ChangedPaths)
            listed == LinesOfKind("changed")
        IN  /\ lines[1] = Header(N)
            /\ Len(listed) = N
            /\ {listed[k].path : k \in 1..N} = ChangedPaths
            /\ \A j, k \in 1..N : j < k => Before(listed[j].path, listed[k].path)
            /\ N > 0 =>
                  /\ lines[2] = ChangedTitle(N)
                  /\ lines[3] = PreOpen
                  /\ \A k \in 1..N : lines[3 + k] = listed[k]
                  /\ lines[4 + N] = PreClose

\* Two paths changed, collected in the order src/a.js, lib/b.js and listed
\* in the order lib/b.js, src/a.js.
C11_Witness ==
    /\ lines # <<>>
    /\ Len(stats.changed) = 2
    /\ stats.changed[1].path = LocalPath(SrcA)
    /\ lines[4].path = LocalPath(SrcB)
    /\ lines[5].path = LocalPath(SrcA)

\* The texts of a message, its newlines left out.
Texts(message) == SelectSeq(message, LAMBDA t : t # Newline)

\* The report lines after the header, as texts.
AfterHeader == [k \in 1..(Len(lines) - 1) |-> Text(lines[k + 1])]

IsMarker(t) == t.kind \in {"<pre>", "</pre>"}

\* C12 as stated: whenever telegram-message.txt is written, its content is
\* the report line sequence with the header omitted and the block markers
\* stripped, so it holds no block-marker line.
C12_TelegramStripsMarkers ==
    "telegram-message.txt" \in written =>
        /\ Texts(output.telegram) = SelectSeq(AfterHeader, LAMBDA t : ~IsMarker(t))
        /\ \A k \in DOMAIN output.telegram : ~IsMarker(output.telegram[k])

\* C12 amended: whenever telegram-message.txt is written, its content is the
\* report line sequence with the header omitted and the block markers kept;
\* the markers are stripped from commit-message.txt only, which keeps the
\* header.
C12_TelegramOmitsHeader ==
    "telegram-message.txt" \in written =>
        /\ Texts(output.telegram) = AfterHeader
        /\ \A k \in DOMAIN output.telegram : output.telegram[k].kind # "header"
        /\ Texts(output.commit) =
              SelectSeq([k \in DOMAIN lines |-> Text(lines[k])], LAMBDA t : ~IsMarker(t))

\* telegram-message.txt is written for a run with a changed file and a failed
\* download, and holds the markers of both blocks.
C12_Witness ==
    /\ "telegram-message.txt" \in written
    /\ Len(stats.changed) > 0
    /\ Len(stats.failed) > 0
    /\ Len(SelectSeq(output.telegram, IsMarker)) = 4

\* C13: between the call of processInBatches and the end of the run every
\* URL is fetched at most once, and exactly once by the time processInBatches
\* has returned; a job that has returned is not fetched again, and neither
\* its outcome nor the outcomes already handed to main change afterwards.
C13_FetchedOnceAndFinal ==
    [][ /\ \A u \in Links :
            /\ job'[u].fetches <= 1
            /\ ReturnedToMain' => job'[u].fetches = 1
            /\ job[u].pc = "done" =>
                  /\ job'[u].fetches = job[u].fetches
                  /\ job'[u].results = job[u].results
        /\ \A k \in DOMAIN results :
              k \in DOMAIN results' /\ results'[k] = results[k] ]_vars

\* Three URLs have been fetched once each, the first attempt failed and the
\* other two succeeded after it, and processInBatches has returned.
C13_Witness ==
    /\ mpc = "report"
    /\ nLinks = 3
    /\ finished[1] = 1
    /\ ~results[1].success
    /\ results[2].success /\ results[3].success
    /\ \A u \in Links : job[u].fetches = 1

\* C14: once the report lines are built, the failed-downloads block has one
\* line per failed outcome, with that outcome's URL and error, in the order
\* of the URLs in the link list; with at least one failure the block (title,
\* opening marker, the lines, closing marker) ends the report.
C14_FailedBlockInInputOrder ==
    lines # <<>> =>
        LET N == Cardinality(FailedUrls)
            listed == LinesOfKind("failed")
            first == Len(lines) - N
        IN  /\ Len(listed) = N
            /\ {listed[k].url : k \in 1..N} = FailedUrls
            /\ \A k \in 1..N : listed[k].error = job[listed[k].url].results.error
            /\ \A j, k \in 1..N : j < k => listed[j].url < listed[k].url
            /\ N > 0 =>
                  /\ lines[first - 2] = FailedTitle(N)
                  /\ lines[first - 1] = PreOpen
                  /\ \A k \in 1..N : lines[first - 1 + k] = listed[k]
                  /\ lines[Len(lines)] = PreClose

\* The first and the third URL of three failed, one for its status and one
\* for its format, and the block lists them in that order.
C14_Witness ==
    /\ lines # <<>>
    /\ FailedUrls = {1, 3}
    /\ LinesOfKind("failed") =
          <<FailedLine([url |-> 1, error |-> "Invalid sourcemap format"]),
            FailedLine([url |-> 3, error |-> "HTTP 404"])>>

\* ---- The jobs run one after another, as a function of the link list, the
\* remote content and the mirror the run found.  Modification times differ
\* from run to run, so a file is kept as its content and whether it is still
\* the version the run found, and previousModified as "none", "found" (the
\* time of the version the run found) or "run" (the time of a write of this
\* run).
SeqMirror0 ==
    [p \in Paths |-> [exists |-> mirror0[p].exists, content |-> mirror0[p].content,
                      found |-> TRUE]]

SeqFile(path, isChanged, previous) ==
    [path |-> path, isChanged |-> isChanged, previous |-> previous]

\* One pass of the loop of lines 100-138 with nothing running beside it.
SeqEntry(st, doc, i) ==
    LET content == ContentAt(doc, i)
        p == LocalPath(doc.sources[i])
        old == st.mirror[p]
        new == [exists |-> TRUE, content |-> content, found |-> FALSE] IN
    IF content = NoContent THEN st
    ELSE IF ~old.exists
    THEN [mirror |-> [st.mirror EXCEPT ![p] = new],
          files |-> Append(st.files, SeqFile(p, TRUE, "none"))]
    ELSE IF old.content = content
    THEN [st EXCEPT !.files = Append(@, SeqFile(p, FALSE, "none"))]
    ELSE [mirror |-> [st.mirror EXCEPT ![p] = new],
          files |-> Append(st.files,
                           SeqFile(p, TRUE, IF old.found THEN "found" ELSE "run"))]

RECURSIVE SeqEntries(_, _, _)
SeqEntries(st, doc, i) ==
    IF i > Len(doc.sources) THEN st
    ELSE SeqEntries(SeqEntry(st, doc, i), doc, i + 1)

\* One call of downloadAndExtractSourcemap (lines 72-145) on a mirror, with no
\* I/O fault: the mirror it leaves and the outcome it returns.
SeqJob(mirror, u) ==
    LET doc == remote[u]
        failed(message) ==
            [mirror |-> mirror, success |-> FALSE, files |-> <<>>, error |-> message] IN
    IF ~doc.ok THEN failed("HTTP " \o ToString(doc.status))
    ELSE IF ~doc.json THEN failed("Unexpected token")
    ELSE IF ~doc.hasSources \/ ~doc.hasContent THEN failed("Invalid sourcemap format")
    ELSE LET st == SeqEntries([mirror |-> mirror, files |-> <<>>], doc, 1) IN
         [mirror |-> st.mirror, success |-> TRUE, files |-> st.files, error |-> Null]

\* The mirror after the jobs of URLs 1..n have run one after another.
RECURSIVE SeqRun(_)
SeqRun(n) == IF n = 0 THEN SeqMirror0 ELSE SeqJob(SeqRun(n - 1), n).mirror

\* What a job of the program returned and what the program left of a file, in
\* the terms of the sequential run.
OutcomeOf(u) ==
    LET r == job[u].results
        previous(f) ==
            IF f.previousModified = <<>> THEN "none"
            ELSE IF f.previousModified = <<mirror0[f.path].mtime>> THEN "found"
            ELSE "run" IN
    [success |-> r.success, error |-> r.error,
     files |-> [k \in DOMAIN r.files |->
                   SeqFile(r.files[k].path, r.files[k].isChanged, previous(r.files[k]))]]

MirrorContent == [p \in Paths |-> [exists |-> fs[p].exists, content |-> fs[p].content]]

\* The jobs of every chunk resolve to pairwise disjoint sets of local paths.
ChunksDisjoint ==
    \A u, v \in Links :
        u # v /\ ChunkOf(u) = ChunkOf(v) => Targets(u) \cap Targets(v) = {}

AllDone == mpc # "crashed" /\ \A u \in Links : job[u].pc = "done"

\* C15: when the jobs of every chunk resolve to pairwise disjoint path sets
\* and no I/O call fails, then under every interleaving of the jobs' steps
\* the mirror content left by the jobs and the outcome of every job are those
\* of running the jobs one after another in the order of the link list.
C15_DisjointJobsAsSequential ==
    AllDone /\ faults = 0 /\ ChunksDisjoint =>
        /\ \A p \in Paths :
              MirrorContent[p] = [exists |-> SeqRun(nLinks)[p].exists,
                                  content |-> SeqRun(nLinks)[p].content]
        /\ \A u \in Links :
              LET seq == SeqJob(SeqRun(u - 1), u) IN
              OutcomeOf(u) = [success |-> seq.success, error |-> seq.error,
                              files |-> seq.files]

\* Two jobs of one chunk wrote src/a.js and lib/b.js, the second URL's job
\* before the first URL's, and the first replaced the file the run found.
C15_Witness ==
    /\ AllDone /\ faults = 0 /\ ChunksDisjoint
    /\ nLinks = 2 /\ batchSize = 2
    /\ Targets(1) = {LocalPath(SrcA)} /\ Targets(2) = {LocalPath(SrcB)}
    /\ mirror0[LocalPath(SrcA)].exists
    /\ fs[LocalPath(SrcB)].exists
    /\ fs[LocalPath(SrcB)].mtime < fs[LocalPath(SrcA)].mtime
    /\ fs[LocalPath(SrcA)].content # mirror0[LocalPath(SrcA)].content

\* The entries of u's document that are present and resolve to path p.
EntriesOn(u, p) ==
    {i \in DOMAIN remote[u].sources :
        ContentAt(remote[u], i) # NoContent /\ EntryPath(remote[u], i) = p}

Last(S) == CHOOSE i \in S : \A j \in S : j <= i

\* The content of the last present entry of u's document that resolves to p.
LastContent(u, p) == ContentAt(remote[u], Last(EntriesOn(u, p)))

\* The last changed FileOutcome of job u for path p.
LastChange(u, p) ==
    job[u].results.files[
        Last({k \in FilesOf(u) : /\ job[u].results.files[k].path = p
                                 /\ job[u].results.files[k].isChanged})]

\* The sourcemaps of URLs u < v both resolve to p, with different content,
\* both jobs succeeded and main has collected the outcomes.
Overwritten(u, v, p) ==
    /\ lines # <<>>
    /\ u < v
    /\ job[u].pc = "done" /\ job[u].results.success
    /\ job[v].pc = "done" /\ job[v].results.success
    /\ p \in Targets(u) \cap Targets(v)
    /\ LastContent(u, p) # LastContent(v, p)
    /\ \A w \in Links \ {u, v} : p \notin Targets(w)

\* The mirror file and the ChangeSet entry of p are those of the later URL v.
LaterWins(v, p) ==
    /\ fs[p].content = LastContent(v, p)
    /\ \E k \in DOMAIN stats.changed :
          /\ stats.changed[k].path = p
          /\ \E n \in FilesOf(v) :
                job[v].results.files[n].path = p /\ job[v].results.files[n].isChanged
          /\ stats.changed[k].previousModified = LastChange(v, p).previousModified

\* C16 as stated: the sourcemap later in the link list wins, also when both
\* sourcemaps are processed in the same chunk.
C16_LaterSourcemapWins ==
    \A u, v \in Links : \A p \in Paths : Overwritten(u, v, p) => LaterWins(v, p)

\* C16 amended: the sourcemap later in the link list wins when the two
\* sourcemaps are processed in different chunks.
C16_LaterChunkWins ==
    \A u, v \in Links : \A p \in Paths :
        Overwritten(u, v, p) /\ ChunkOf(u) # ChunkOf(v) => LaterWins(v, p)

\* Two sourcemaps in two chunks wrote src/a.js, the first as a new file; the
\* file holds the second one's content and the ChangeSet entry carries the
\* time of the first one's write.
C16_Witness ==
    /\ nLinks = 2 /\ batchSize = 1
    /\ Overwritten(1, 2, LocalPath(SrcA))
    /\ job[1].results.files[1] = ChangedFile(LocalPath(SrcA), <<>>)
    /\ fs[LocalPath(SrcA)].content = LastContent(2, LocalPath(SrcA))
    /\ \E k \in DOMAIN stats.changed :
          /\ stats.changed[k].path = LocalPath(SrcA)
          /\ stats.changed[k].previousModified = <<fs[LocalPath(SrcA)].mtime - 1>>

\* The answer for u has a status that is not 2xx.
NotOk(u) == ~remote[u].ok

\* The answer for u is a JSON document without sources or without
\* sourcesContent.
LacksFields(u) ==
    remote[u].ok /\ remote[u].json /\ (~remote[u].hasSources \/ ~remote[u].hasContent)

\* Job u took a step in which no I/O call failed.
Stepped(u) == job'[u] # job[u] /\ job'[u].fault = ""

\* C17: a job whose fetch ends with a status that is not 2xx, or whose
\* document lacks sources or sourcesContent, changes no file and no directory
\* in any of its steps, and returns success = false, the error "HTTP <status>"
\* or "Invalid sourcemap format", and no files.
C17_RejectedWithoutWriting ==
    [][\A u \in Links :
          (NotOk(u) \/ LacksFields(u)) /\ Stepped(u) =>
              /\ fs' = fs /\ dirs' = dirs /\ writes' = writes
              /\ job'[u].pc \in {"fetch", "json", "done"}
              /\ job'[u].pc = "done" =>
                    job'[u].results =
                        [url |-> u, success |-> FALSE, files |-> <<>>,
                         error |-> IF LacksFields(u) THEN "Invalid sourcemap format"
                                   ELSE IF remote[u].status = 404 THEN "HTTP 404"
                                   ELSE "HTTP"]]_vars

\* One job returned "HTTP 404" and the other "Invalid sourcemap format", and
\* the mirror is the one the run found.
C17_Witness ==
    /\ nLinks = 2
    /\ NotOk(1) /\ LacksFields(2)
    /\ job[1].pc = "done" /\ job[1].results.error = "HTTP 404"
    /\ job[2].pc = "done" /\ job[2].results.error = "Invalid sourcemap format"
    /\ fs = mirror0 /\ writes = 0

\* main has reached the no-op exit, or has written both report files.
Ended ==
    \/ mpc = "exited" /\ written = {}
    \/ mpc = "done" /\ written = ReportFiles

\* C18: when every started job eventually completes, a call of
\* processInBatches leads to its return with one outcome per URL, each URL's
\* job started exactly once, and then to main's no-op exit or to both report
\* files written.
C18_RunEnds ==
    (mpc = "processInBatches") ~>
        (/\ Ended
         /\ Len(results) = nLinks
         /\ \A u \in Links : job[u].fetches = 1 /\ job[u].pc = "done")

\* The run of three URLs in chunks of two has ended with both report files.
C18_Witness ==
    /\ nLinks = 3 /\ batchSize = 2
    /\ mpc = "done" /\ written = ReportFiles
    /\ Len(results) = 3
    /\ \A u \in Links : job[u].fetches = 1

\* The paths jobs of this run wrote: every write is followed, in the same
\* step, by the push of a changed FileOutcome (lines 126-131), and the catch
\* block keeps the files pushed before the failure.
WrittenPaths ==
    UNION {{job[u].results.files[k].path :
               k \in {n \in FilesOf(u) : job[u].results.files[n].isChanged}} :
           u \in Links}

\* C19: once the report lines are built, every path a job of the run wrote is
\* listed in the changed-files block, also when the job failed after the
\* write.
C19_WrittenPathsAreReported ==
    lines # <<>> =>
        WrittenPaths \subseteq
            {LinesOfKind("changed")[k].path : k \in DOMAIN LinesOfKind("changed")}

\* The indices of the present entries of u's document, in index order.
PresentEntries(u) ==
    SelectSeq([i \in DOMAIN remote[u].sources |-> i],
              LAMBDA i : ContentAt(remote[u], i) # NoContent)

\* Job u has returned success = true and no other URL's document resolves to
\* a path that u's document resolves to.
ReturnedAlone(u) ==
    /\ job[u].pc = "done" /\ job[u].results.success
    /\ \A v \in Links \ {u} : Targets(v) \cap Targets(u) = {}

\* C20: after a job has returned success = true, no other job writing its
\* paths, the mirror file of every present entry holds the content of the
\* last present entry that resolves to the same path, and the job's files are
\* one FileOutcome per present entry, in index order, with that entry's
\* path, and none for an absent entry.
C20_OneOutcomePerPresentEntry ==
    \A u \in Links :
        ReturnedAlone(u) =>
            LET present == PresentEntries(u)
                files == job[u].results.files IN
            /\ Len(files) = Len(present)
            /\ \A k \in DOMAIN present :
                  /\ job[u].obs[k].entry = present[k]
                  /\ files[k].path = LocalPath(remote[u].sources[present[k]])
                  /\ fs[files[k].path].exists
                  /\ fs[files[k].path].content = LastContent(u, files[k].path)

\* A job returned one FileOutcome for a document of two entries whose first
\* has no content, and another returned two for two entries on one path.
C20_Witness ==
    /\ nLinks = 2
    /\ ReturnedAlone(1) /\ ReturnedAlone(2)
    /\ Len(remote[1].sources) = 2 /\ ContentAt(remote[1], 1) = NoContent
    /\ Len(job[1].results.files) = 1
    /\ Len(job[2].results.files) = 2
    /\ job[2].results.files[1].path = job[2].results.files[2].path
    /\ job[2].results.files[2].isChanged


====
